---- MODULE Spec2Model ----
(***************************************************************************)
(* Model of the tracing-forest delivery pipeline:                          *)
(*   - processor/mod.rs : Processor, WithFallback, Sink, UnboundedSender   *)
(*   - builder.rs       : SubscriberBuilder<_, Process<P>>::on and         *)
(*                        SubscriberBuilder<_, Capture>::on                *)
(* The specifications share the variables:                                 *)
(*   Spec        Process mode (background task, shutdown, drain)           *)
(*   SpecFair    Process mode under fair scheduling                        *)
(*   SpecCapture Capture mode (run the scope, close, drain into a Vec)     *)
(*   SpecModes   Process mode and Capture mode side by side                *)
(*   SpecChain   WithFallback::process as a pure function of its inputs    *)
(***************************************************************************)
EXTENDS Integers, Sequences, FiniteSets, TLC

\* ---- bounds -------------------------------------------------------------
\* trees the instrumented scope (producer 1) may produce
MaxTrees == 3
\* trees a producer on another task/thread (producer 2) may produce
MaxOther == 1
\* stages of a fallback chain in SpecChain
MaxDepth == 3

\* ---- values -------------------------------------------------------------
ScopeProducer == 1
OtherProducer == 2
Producers == {ScopeProducer, OtherProducer}

\* a Tree is opaque; its identity is <<producer, sequence number>>
NoTree == <<0, 0>>
Limit(p) == IF p = ScopeProducer THEN MaxTrees ELSE MaxOther
Trees == {<<p, k>> : p \in Producers, k \in 1..MaxTrees}
\* a degenerate Tree: a value like any other, with nothing in it
EmptyTree == <<ScopeProducer, 0>>

\* what one call of a leaf Processor can return:
\*   Ok(()), Err(report with Some(tree)), Err(report with None)
Outcomes == {"ok", "fail_tree", "fail_notree"}

\* leaf processors a chain is built from
LeafKinds == {"Any", "FailTree", "FailNoTree", "Sink"}

VARIABLES
    mode,            \* "process" | "capture" | "chain"
    is_global,       \* SubscriberBuilder.is_global
    global_set,      \* a global default subscriber was set before this run
    sender_chain,    \* LayerBuilder.sender_processor (TreeSender, maybe wrapped)
    receiver_chain,  \* Process(P).0, the consumer-side Processor
    buffer,          \* trees in the unbounded channel
    rx_closed,       \* receiver.close() was called (or the receiver dropped)
    tx_alive,        \* some UnboundedSender still exists
    shutdown,        \* oneshot: "empty" | "sent" | "received" | "dropped"
    signals,         \* number of shutdown_tx.send calls that succeeded
    fg_pc,           \* position of `on`
    bg_pc,           \* position of the spawned task
    bg_cur,          \* tree received by the task and not yet processed
    count,           \* trees produced so far, per producer
    sends,           \* history: every submission to sender_processor
    enqueued,        \* history: trees pushed to the channel, in arrival order
    sig_mark,        \* Len(enqueued) when the shutdown signal was sent
    observed,        \* history: calls of the consumer-side Processor
    hook,            \* history: reports given to fail::processing_error
    logs,            \* Capture: the Vec<Tree> being built
    pchain,          \* SpecChain: the chain under test
    ptree,           \* SpecChain: the input tree
    poracle,         \* SpecChain: what each leaf returns when called
    pres             \* SpecChain: the result of process, or NoResult

vars == <<mode, is_global, global_set, sender_chain, receiver_chain, buffer,
          rx_closed, tx_alive, shutdown, signals, fg_pc, bg_pc, bg_cur, count,
          sends, enqueued, sig_mark, observed, hook, logs,
          pchain, ptree, poracle, pres>>

pipeVars == <<mode, is_global, global_set, sender_chain, receiver_chain, buffer,
              rx_closed, tx_alive, shutdown, signals, fg_pc, bg_pc, bg_cur,
              count, sends, enqueued, sig_mark, observed, hook, logs>>

chainVars == <<pchain, ptree, poracle, pres>>

\* ---- processor/mod.rs ---------------------------------------------------
\* Result<(), ProcessReport> together with the calls made to produce it:
\*   ok    : Ok(()) or Err(report)
\*   tree  : the Option<Tree> of the report (NoTree for None and for Ok)
\*   calls : <<stage, tree>> for every leaf Processor invoked, in order
Result(ok, tree, calls) == [ok |-> ok, tree |-> tree, calls |-> calls]

\* the outcomes a leaf of the given kind can produce
StageOutcomes(kind) ==
    CASE kind = "Sink"       -> {"ok"}
      [] kind = "FailTree"   -> {"fail_tree"}
      [] kind = "FailNoTree" -> {"fail_notree"}
      [] OTHER               -> Outcomes

\* mutant of SinkProcess: a tree with nothing in it is refused
SinkRejectsEmpty(stage, tree) ==
    IF tree = EmptyTree
    THEN Result(FALSE, tree, << <<stage, tree>> >>)
    ELSE Result(TRUE, NoTree, << <<stage, tree>> >>)

\* impl Processor for Sink: Ok(()) for every tree
SinkProcess(stage, tree) == Result(TRUE, NoTree, << <<stage, tree>> >>)

\* one call of a leaf Processor whose outcome is oc
LeafProcess(stage, tree, oc) ==
    IF oc = "ok"
    THEN SinkProcess(stage, tree)
    ELSE Result(FALSE, IF oc = "fail_tree" THEN tree ELSE NoTree,
                << <<stage, tree>> >>)

\* mutant of UnboundedSenderProcess: the report of a failed send has no tree
UnboundedSenderLosesTree(closed) == IF closed THEN "fail_notree" ELSE "ok"

\* impl Processor for UnboundedSender<Tree>: send fails only when the
\* receiving half is closed, and the error gives the tree back
UnboundedSenderProcess(closed) == IF closed THEN "fail_tree" ELSE "ok"

\* ProcessReport::try_fallback: retry on the fallback when the report still
\* holds the tree, else hand the report on unchanged
TryFallback(report, stage, oracle) ==
    IF report.tree # NoTree
    THEN LET r == LeafProcess(stage, report.tree, oracle[stage])
         IN  Result(r.ok, r.tree, report.calls \o r.calls)
    ELSE report

\* mutant of WithFallbackProcess: the fallback runs after a success as well
RECURSIVE WithFallbackEager(_, _, _)
WithFallbackEager(n, tree, oracle) ==
    IF n = 1
    THEN LeafProcess(1, tree, oracle[1])
    ELSE LET r == WithFallbackEager(n - 1, tree, oracle)
         IN  TryFallback(Result(r.ok, tree, r.calls), n, oracle)

\* mutant of WithFallbackProcess: a report without its tree is retried anyway
RECURSIVE WithFallbackRetryLost(_, _, _)
WithFallbackRetryLost(n, tree, oracle) ==
    IF n = 1
    THEN LeafProcess(1, tree, oracle[1])
    ELSE LET r == WithFallbackRetryLost(n - 1, tree, oracle)
         IN  IF r.ok THEN r
             ELSE TryFallback(Result(r.ok, tree, r.calls), n, oracle)

\* mutant of WithFallbackProcess: primary and fallback are swapped
RECURSIVE WithFallbackSwapped(_, _, _)
WithFallbackSwapped(n, tree, oracle) ==
    IF n = 1
    THEN LeafProcess(1, tree, oracle[1])
    ELSE LET r == LeafProcess(n, tree, oracle[n])
         IN  IF r.ok \/ r.tree = NoTree THEN r
             ELSE LET q == WithFallbackSwapped(n - 1, r.tree, oracle)
                  IN  Result(q.ok, q.tree, r.calls \o q.calls)

\* mutant of WithFallbackProcess: only the primary is tried
RECURSIVE WithFallbackNoRetry(_, _, _)
WithFallbackNoRetry(n, tree, oracle) ==
    IF n = 1
    THEN LeafProcess(1, tree, oracle[1])
    ELSE WithFallbackNoRetry(n - 1, tree, oracle)

\* WithFallback::process for the chain stage1.with_fallback(stage2)...(stage n)
RECURSIVE WithFallbackProcess(_, _, _)
WithFallbackProcess(n, tree, oracle) ==
    IF n = 1
    THEN LeafProcess(1, tree, oracle[1])
    ELSE LET r == WithFallbackProcess(n - 1, tree, oracle)
         IN  IF r.ok THEN r ELSE TryFallback(r, n, oracle)

\* the oracles a chain of leaf kinds admits
Oracles(chain) ==
    {o \in [1..Len(chain) -> Outcomes] :
        \A i \in 1..Len(chain) : o[i] \in StageOutcomes(chain[i])}

\* all chains of 1..n leaves
Chains(n) == UNION {[1..k -> LeafKinds] : k \in 1..n}

\* ---- builder.rs: configuration -----------------------------------------
\* new()/capture() followed by map_sender: TreeSender alone or with a fallback
SenderChains == {<<"Sender">>, <<"Sender", "Any">>}

\* map_receiver: the consumer-side Processor is a single leaf that may return
\* anything, or a primary wrapped by with_ignore_fallback
ReceiverChains == {<<"Any">>, <<"Any", "Sink">>, <<"FailTree", "Sink">>,
                   <<"FailNoTree", "Sink">>}

\* the oracles of a sender chain: stage 1 is the channel itself
SenderOracles(chain, closed) ==
    {o \in [1..Len(chain) -> Outcomes] :
        /\ o[1] = UnboundedSenderProcess(closed)
        /\ \A i \in 2..Len(chain) : o[i] \in StageOutcomes(chain[i])}

NoResult == Result(TRUE, NoTree, <<>>)

ChainIdle ==
    /\ pchain = <<"Sink">>
    /\ ptree = NoTree
    /\ poracle = <<"ok">>
    /\ pres = NoResult

\* state after `let (shutdown_tx, shutdown_rx) = ...; tokio::spawn(...)`
Init ==
    /\ mode = "process"
    /\ is_global \in BOOLEAN
    /\ global_set \in BOOLEAN
    /\ sender_chain \in SenderChains
    /\ receiver_chain \in ReceiverChains
    /\ buffer = <<>>
    /\ rx_closed = FALSE
    /\ tx_alive = TRUE
    /\ shutdown = "empty"
    /\ signals = 0
    /\ fg_pc = "setup"
    /\ bg_pc = "Running"
    /\ bg_cur = NoTree
    /\ count = [p \in Producers |-> 0]
    /\ sends = <<>>
    /\ enqueued = <<>>
    /\ sig_mark = 0
    /\ observed = <<>>
    /\ hook = <<>>
    /\ logs = <<>>
    /\ ChainIdle

\* ---- producers (the TreeLayer calling sender_processor.process) ---------
\* the subscriber of this run is the default subscriber where p runs:
\* set_global_default covers every thread from setup on, set_default only the
\* scope's thread while the guard lives; producer 1 is the scope itself
Active(p) ==
    IF p = ScopeProducer
    THEN fg_pc = "scope"
    ELSE IF is_global
         THEN fg_pc \in {"scope", "scope_done", "joining", "draining", "returned"}
         ELSE fg_pc = "scope"

\* mutant of Send: the tree is pushed whether or not the channel is closed
SendAlways(buf, tree, closed) == Append(buf, tree)

\* UnboundedSender::send on the channel
Send(buf, tree, closed) == IF closed THEN buf ELSE Append(buf, tree)

\* sender_processor.process(tree), for TreeSender and its fallback wrappers
Produce(p) ==
    /\ Active(p)
    /\ count[p] < Limit(p)
    /\ LET tree == <<p, count[p] + 1>>
       IN \E o \in SenderOracles(sender_chain, rx_closed) :
            LET r == WithFallbackProcess(Len(sender_chain), tree, o)
            IN  /\ buffer' = Send(buffer, tree, rx_closed)
                /\ enqueued' = IF o[1] = "ok" THEN Append(enqueued, tree)
                                             ELSE enqueued
                /\ sends' = Append(sends, [tree |-> tree, closed |-> rx_closed,
                                           sent |-> o[1] = "ok",
                                           ok |-> r.ok, carried |-> r.tree,
                                           calls |-> r.calls])
    /\ count' = [count EXCEPT ![p] = @ + 1]
    /\ UNCHANGED <<mode, is_global, global_set, sender_chain, receiver_chain,
                   rx_closed, tx_alive, shutdown, signals, fg_pc, bg_pc, bg_cur,
                   sig_mark, observed, hook, logs>>
    /\ UNCHANGED chainVars

\* ---- Process mode: the foreground of `on` (builder.rs 441-452) ----------
\* mutant of SetupFails: the Err of set_global_default is dropped
SetupErrorIgnored(global, already) == FALSE

\* set_global_default(..).expect(..) panics when a global default is already
\* set; set_default cannot fail
SetupFails(global, already) == global /\ already

\* set_global_default(..).expect(..) or set_default(..)
FgSetup ==
    /\ mode = "process"
    /\ fg_pc = "setup"
    /\ IF SetupFails(is_global, global_set)
       THEN /\ fg_pc' = "panicked"
            /\ shutdown' = "dropped"
            /\ tx_alive' = FALSE
       ELSE /\ fg_pc' = "scope"
            /\ UNCHANGED <<shutdown, tx_alive>>
    /\ UNCHANGED <<mode, is_global, global_set, sender_chain, receiver_chain,
                   buffer, rx_closed, signals, bg_pc, bg_cur, count, sends,
                   enqueued, sig_mark, observed, hook, logs>>
    /\ UNCHANGED chainVars

\* f.await completes; in the scoped branch _guard is dropped with the block
FgScopeComplete ==
    /\ mode = "process"
    /\ fg_pc = "scope"
    /\ fg_pc' = "scope_done"
    /\ tx_alive' = is_global
    /\ UNCHANGED <<mode, is_global, global_set, sender_chain, receiver_chain,
                   buffer, rx_closed, shutdown, signals, bg_pc, bg_cur, count,
                   sends, enqueued, sig_mark, observed, hook, logs>>
    /\ UNCHANGED chainVars

\* mutant of FgSendShutdown: the sender is kept and the signal can be sent again
FgSendShutdownAgain ==
    /\ mode = "process"
    /\ fg_pc \in {"scope_done", "joining"}
    /\ signals < 3
    /\ IF bg_pc \in {"Done", "Panicked"}
       THEN /\ fg_pc' = "panicked"
            /\ UNCHANGED <<shutdown, signals, sig_mark>>
       ELSE /\ fg_pc' = "joining"
            /\ shutdown' = "sent"
            /\ signals' = signals + 1
            /\ sig_mark' = Len(enqueued)
    /\ UNCHANGED <<mode, is_global, global_set, sender_chain, receiver_chain,
                   buffer, rx_closed, tx_alive, bg_pc, bg_cur, count, sends,
                   enqueued, observed, hook, logs>>
    /\ UNCHANGED chainVars

\* shutdown_tx.send(()).expect(..): fails when the task dropped shutdown_rx
FgSendShutdown ==
    /\ mode = "process"
    /\ fg_pc = "scope_done"
    /\ IF bg_pc \in {"Done", "Panicked"}
       THEN /\ fg_pc' = "panicked"
            /\ UNCHANGED <<shutdown, signals, sig_mark>>
       ELSE /\ fg_pc' = "joining"
            /\ shutdown' = "sent"
            /\ signals' = signals + 1
            /\ sig_mark' = Len(enqueued)
    /\ UNCHANGED <<mode, is_global, global_set, sender_chain, receiver_chain,
                   buffer, rx_closed, tx_alive, bg_pc, bg_cur, count, sends,
                   enqueued, observed, hook, logs>>
    /\ UNCHANGED chainVars

\* mutant of JoinReady: the task is left detached, `on` does not wait for it
JoinDetached(bg) == TRUE

\* handle.await resolves when the spawned task has ended
JoinReady(bg) == bg \in {"Done", "Panicked"}

\* handle.await.expect(..)
FgJoin ==
    /\ mode = "process"
    /\ fg_pc = "joining"
    /\ JoinReady(bg_pc)
    /\ fg_pc' = IF bg_pc = "Panicked" THEN "panicked" ELSE "returned"
    /\ UNCHANGED <<mode, is_global, global_set, sender_chain, receiver_chain,
                   buffer, rx_closed, tx_alive, shutdown, signals, bg_pc, bg_cur,
                   count, sends, enqueued, sig_mark, observed, hook, logs>>
    /\ UNCHANGED chainVars

\* ---- Process mode: the spawned task (builder.rs 422-439) ----------------
\* fail::processing_error: the failure hook takes the report and returns
ProcessingError(h, tree, r) == Append(h, [tree |-> tree, carried |-> r.tree])

\* mutant of UnwrapOrElse: the hook is called with every result
UnwrapAlwaysReports(h, tree, r) == ProcessingError(h, tree, r)

\* mutant of UnwrapOrElse: the Err is dropped without calling the hook
UnwrapOrDefault(h, tree, r) == h

\* .unwrap_or_else(fail::processing_error) on the result r of process(tree)
UnwrapOrElse(h, tree, r) == IF r.ok THEN h ELSE ProcessingError(h, tree, r)

\* mutant of Recv: the tree is read and left in the buffer
RecvPeek(buf) == [tree |-> Head(buf), rest |-> buf]

\* mutant of Recv: the newest buffered tree is taken
RecvLifo(buf) == [tree |-> buf[Len(buf)], rest |-> SubSeq(buf, 1, Len(buf) - 1)]

\* UnboundedReceiver::recv with a tree buffered: the oldest one is taken
Recv(buf) == [tree |-> Head(buf), rest |-> Tail(buf)]

\* mutant of RecvIsNone: a closed channel ends the loop with trees buffered
RecvIsNoneOnClose(buf, closed, alive) == closed \/ ~alive

\* UnboundedReceiver::recv gives None: nothing buffered, and nothing can come
RecvIsNone(buf, closed, alive) == buf = <<>> /\ (closed \/ ~alive)

\* mutant of Close: the receiving half is left open
CloseSkipped(closed) == closed

\* UnboundedReceiver::close
Close(closed) == TRUE

\* mutant of Idle: the next tree is taken while one is being processed
IdleAlways(cur) == TRUE

\* the task is at its select! or recv().await: process(tree) is a plain call
\* inside the loop body and has returned
Idle(cur) == cur = NoTree

\* select!: the `Some(tree) = receiver.recv()` branch wins
BgRecv ==
    /\ mode = "process"
    /\ bg_pc = "Running"
    /\ Idle(bg_cur)
    /\ buffer # <<>>
    /\ bg_cur' = Recv(buffer).tree
    /\ buffer' = Recv(buffer).rest
    /\ UNCHANGED <<mode, is_global, global_set, sender_chain, receiver_chain,
                   rx_closed, tx_alive, shutdown, signals, fg_pc, bg_pc, count,
                   sends, enqueued, sig_mark, observed, hook, logs>>
    /\ UNCHANGED chainVars

\* processor.process(tree).unwrap_or_else(fail::processing_error), in either loop
BgProcess ==
    /\ mode = "process"
    /\ bg_pc \in {"Running", "Draining"}
    /\ bg_cur # NoTree
    /\ \E o \in Oracles(receiver_chain) :
         LET r == WithFallbackProcess(Len(receiver_chain), bg_cur, o)
         IN  /\ observed' = Append(observed, [tree |-> bg_cur, ok |-> r.ok,
                                              carried |-> r.tree, phase |-> bg_pc,
                                              calls |-> r.calls])
             /\ hook' = UnwrapOrElse(hook, bg_cur, r)
    /\ bg_cur' = NoTree
    /\ UNCHANGED <<mode, is_global, global_set, sender_chain, receiver_chain,
                   buffer, rx_closed, tx_alive, shutdown, signals, fg_pc, bg_pc,
                   count, sends, enqueued, sig_mark, logs>>
    /\ UNCHANGED chainVars

\* mutant of ShutdownReady: the branch also takes the Err of a dropped sender
ShutdownReadyOnDrop(sd) == sd \in {"sent", "dropped"}

\* `Ok(()) = &mut shutdown_rx`: the oneshot resolved to Ok(())
ShutdownReady(sd) == sd = "sent"

\* select!: the `Ok(()) = &mut shutdown_rx` branch wins
BgShutdown ==
    /\ mode = "process"
    /\ bg_pc = "Running"
    /\ Idle(bg_cur)
    /\ ShutdownReady(shutdown)
    /\ shutdown' = "received"
    /\ bg_pc' = "ShuttingDown"
    /\ UNCHANGED <<mode, is_global, global_set, sender_chain, receiver_chain,
                   buffer, rx_closed, tx_alive, signals, fg_pc, bg_cur, count,
                   sends, enqueued, sig_mark, observed, hook, logs>>
    /\ UNCHANGED chainVars

\* receiver.close(); break
BgClose ==
    /\ mode = "process"
    /\ bg_pc = "ShuttingDown"
    /\ rx_closed' = Close(rx_closed)
    /\ bg_pc' = "Draining"
    /\ UNCHANGED <<mode, is_global, global_set, sender_chain, receiver_chain,
                   buffer, tx_alive, shutdown, signals, fg_pc, bg_cur, count,
                   sends, enqueued, sig_mark, observed, hook, logs>>
    /\ UNCHANGED chainVars

\* while let Some(tree) = receiver.recv().await
BgDrainRecv ==
    /\ mode = "process"
    /\ bg_pc = "Draining"
    /\ Idle(bg_cur)
    /\ buffer # <<>>
    /\ bg_cur' = Recv(buffer).tree
    /\ buffer' = Recv(buffer).rest
    /\ UNCHANGED <<mode, is_global, global_set, sender_chain, receiver_chain,
                   rx_closed, tx_alive, shutdown, signals, fg_pc, bg_pc, count,
                   sends, enqueued, sig_mark, observed, hook, logs>>
    /\ UNCHANGED chainVars

\* recv() gives None: the drain loop and the task end
BgDone ==
    /\ mode = "process"
    /\ bg_pc = "Draining"
    /\ Idle(bg_cur)
    /\ RecvIsNone(buffer, rx_closed, tx_alive)
    /\ bg_pc' = "Done"
    /\ rx_closed' = TRUE
    /\ UNCHANGED <<mode, is_global, global_set, sender_chain, receiver_chain,
                   buffer, tx_alive, shutdown, signals, fg_pc, bg_cur, count,
                   sends, enqueued, sig_mark, observed, hook, logs>>
    /\ UNCHANGED chainVars

\* mutant of ShutdownClosed: a pending one-shot counts as a disabled branch,
\* so that a None from recv() alone ends the select!
ShutdownClosedWhilePending(sd) == sd \in {"empty", "dropped"}

\* `Ok(()) = &mut shutdown_rx` is disabled: the oneshot resolved to Err
\* because shutdown_tx was dropped without a send
ShutdownClosed(sd) == sd = "dropped"

\* select! with every branch disabled and no else branch panics: recv() gave
\* None (no sender, empty buffer) and shutdown_rx gave Err (sender dropped)
BgPanic ==
    /\ mode = "process"
    /\ bg_pc = "Running"
    /\ Idle(bg_cur)
    /\ RecvIsNone(buffer, rx_closed, tx_alive)
    /\ ShutdownClosed(shutdown)
    /\ bg_pc' = "Panicked"
    /\ rx_closed' = TRUE
    /\ UNCHANGED <<mode, is_global, global_set, sender_chain, receiver_chain,
                   buffer, tx_alive, shutdown, signals, fg_pc, bg_cur, count,
                   sends, enqueued, sig_mark, observed, hook, logs>>
    /\ UNCHANGED chainVars

Next ==
    \/ \E p \in Producers : Produce(p)
    \/ FgSetup
    \/ FgScopeComplete
    \/ FgSendShutdown
    \/ FgJoin
    \/ BgRecv
    \/ BgProcess
    \/ BgShutdown
    \/ BgClose
    \/ BgDrainRecv
    \/ BgDone
    \/ BgPanic

Spec == Init /\ [][Next]_vars

\* ---- Capture mode: SubscriberBuilder<S, Capture>::on (builder.rs 462-481)
InitCapture ==
    /\ mode = "capture"
    /\ is_global \in BOOLEAN
    /\ global_set \in BOOLEAN
    /\ sender_chain \in SenderChains
    /\ receiver_chain = <<>>
    /\ buffer = <<>>
    /\ rx_closed = FALSE
    /\ tx_alive = TRUE
    /\ shutdown = "empty"
    /\ signals = 0
    /\ fg_pc = "setup"
    /\ bg_pc = "None"
    /\ bg_cur = NoTree
    /\ count = [p \in Producers |-> 0]
    /\ sends = <<>>
    /\ enqueued = <<>>
    /\ sig_mark = 0
    /\ observed = <<>>
    /\ hook = <<>>
    /\ logs = <<>>
    /\ ChainIdle

\* set_global_default(..).expect(..) or set_default(..)
CapSetup ==
    /\ mode = "capture"
    /\ fg_pc = "setup"
    /\ IF SetupFails(is_global, global_set)
       THEN /\ fg_pc' = "panicked"
            /\ tx_alive' = FALSE
            /\ rx_closed' = TRUE
       ELSE /\ fg_pc' = "scope"
            /\ UNCHANGED <<tx_alive, rx_closed>>
    /\ UNCHANGED <<mode, is_global, global_set, sender_chain, receiver_chain,
                   buffer, shutdown, signals, bg_pc, bg_cur, count, sends,
                   enqueued, sig_mark, observed, hook, logs>>
    /\ UNCHANGED chainVars

\* f.await completes; in the scoped branch _guard is dropped with the block
CapScopeComplete ==
    /\ mode = "capture"
    /\ fg_pc = "scope"
    /\ fg_pc' = "scope_done"
    /\ tx_alive' = is_global
    /\ UNCHANGED <<mode, is_global, global_set, sender_chain, receiver_chain,
                   buffer, rx_closed, shutdown, signals, bg_pc, bg_cur, count,
                   sends, enqueued, sig_mark, observed, hook, logs>>
    /\ UNCHANGED chainVars

\* self.receiver.close(); let mut logs = Vec::with_capacity(0)
CapClose ==
    /\ mode = "capture"
    /\ fg_pc = "scope_done"
    /\ rx_closed' = Close(rx_closed)
    /\ logs' = <<>>
    /\ fg_pc' = "draining"
    /\ UNCHANGED <<mode, is_global, global_set, sender_chain, receiver_chain,
                   buffer, tx_alive, shutdown, signals, bg_pc, bg_cur, count,
                   sends, enqueued, sig_mark, observed, hook>>
    /\ UNCHANGED chainVars

\* mutant of Push: the tree is put in front
PushFront(v, tree) == <<tree>> \o v

\* Vec::push
Push(v, tree) == Append(v, tree)

\* mutant of CapDrain: trees are taken while the scope still runs
CapDrainEarly ==
    /\ mode = "capture"
    /\ fg_pc \in {"scope", "scope_done", "draining"}
    /\ buffer # <<>>
    /\ logs' = Push(logs, Recv(buffer).tree)
    /\ buffer' = Recv(buffer).rest
    /\ UNCHANGED <<mode, is_global, global_set, sender_chain, receiver_chain,
                   rx_closed, tx_alive, shutdown, signals, fg_pc, bg_pc, bg_cur,
                   count, sends, enqueued, sig_mark, observed, hook>>
    /\ UNCHANGED chainVars

\* while let Some(tree) = self.receiver.recv().await { logs.push(tree) }
CapDrain ==
    /\ mode = "capture"
    /\ fg_pc = "draining"
    /\ buffer # <<>>
    /\ logs' = Push(logs, Recv(buffer).tree)
    /\ buffer' = Recv(buffer).rest
    /\ UNCHANGED <<mode, is_global, global_set, sender_chain, receiver_chain,
                   rx_closed, tx_alive, shutdown, signals, fg_pc, bg_pc, bg_cur,
                   count, sends, enqueued, sig_mark, observed, hook>>
    /\ UNCHANGED chainVars

\* recv() gives None; `logs` is returned
CapReturn ==
    /\ mode = "capture"
    /\ fg_pc = "draining"
    /\ RecvIsNone(buffer, rx_closed, tx_alive)
    /\ fg_pc' = "returned"
    /\ UNCHANGED <<mode, is_global, global_set, sender_chain, receiver_chain,
                   buffer, rx_closed, tx_alive, shutdown, signals, bg_pc, bg_cur,
                   count, sends, enqueued, sig_mark, observed, hook, logs>>
    /\ UNCHANGED chainVars

NextCapture ==
    \/ \E p \in Producers : Produce(p)
    \/ CapSetup
    \/ CapScopeComplete
    \/ CapClose
    \/ CapDrain
    \/ CapReturn

SpecCapture == InitCapture /\ [][NextCapture]_vars

\* ---- WithFallback::process on its own -----------------------------------
InitChain ==
    /\ mode = "chain"
    /\ is_global = FALSE
    /\ global_set = FALSE
    /\ sender_chain = <<"Sender">>
    /\ receiver_chain = <<>>
    /\ buffer = <<>>
    /\ rx_closed = FALSE
    /\ tx_alive = TRUE
    /\ shutdown = "empty"
    /\ signals = 0
    /\ fg_pc = "setup"
    /\ bg_pc = "None"
    /\ bg_cur = NoTree
    /\ count = [p \in Producers |-> 0]
    /\ sends = <<>>
    /\ enqueued = <<>>
    /\ sig_mark = 0
    /\ observed = <<>>
    /\ hook = <<>>
    /\ logs = <<>>
    /\ pchain \in Chains(MaxDepth)
    /\ ptree \in Trees \cup {EmptyTree}
    /\ poracle = <<>>
    /\ pres = NoResult

\* one call chain.process(tree), each leaf answering as the oracle says
ChainProcess ==
    /\ mode = "chain"
    /\ pres = NoResult
    /\ \E o \in Oracles(pchain) :
         /\ poracle' = o
         /\ pres' = WithFallbackProcess(Len(pchain), ptree, o)
    /\ UNCHANGED <<pchain, ptree>>
    /\ UNCHANGED pipeVars

NextChain == ChainProcess

SpecChain == InitChain /\ [][NextChain]_vars

\* ==== properties =========================================================
ObservedTrees == {observed[i].tree : i \in DOMAIN observed}
TreesOf(seq) == {seq[i] : i \in DOMAIN seq}
FromScope(tree) == tree[1] = ScopeProducer

\* C1: Process mode loses nothing: when `on` has returned, every tree that was
\* enqueued before the shutdown signal was sent has been handed to the
\* consumer-side Processor.
NoLossOnReturn ==
    (mode = "process" /\ fg_pc = "returned") =>
        \A i \in 1..sig_mark : enqueued[i] \in ObservedTrees

\* C1 witness: `on` returned; of the trees enqueued before the signal one was
\* processed in the select loop and a later one in the drain loop (the
\* shutdown branch won while a tree was ready).
NoLossOnReturnWitness ==
    /\ mode = "process"
    /\ fg_pc = "returned"
    /\ sig_mark >= 2
    /\ \E i, j \in DOMAIN observed :
         /\ observed[i].phase = "Running"
         /\ observed[j].phase = "Draining"
         /\ \E k \in 1..sig_mark : enqueued[k] = observed[j].tree

\* C2: the consumer-side Processor sees the trees of one producer in the order
\* that producer enqueued them, across the select loop and the drain loop.
PerProducerOrder ==
    \A i, j \in DOMAIN observed :
        (i < j /\ observed[i].tree[1] = observed[j].tree[1])
            => observed[i].tree[2] < observed[j].tree[2]

\* C2 witness: two producers interleave; the scope's trees are processed partly
\* in the select loop and partly in the drain loop, with a tree of the other
\* producer between them.
PerProducerOrderWitness ==
    /\ Len(observed) >= 3
    /\ \E i, j, k \in DOMAIN observed :
         /\ i < j /\ j < k
         /\ FromScope(observed[i].tree) /\ observed[i].phase = "Running"
         /\ ~FromScope(observed[j].tree)
         /\ FromScope(observed[k].tree) /\ observed[k].phase = "Draining"

\* C3: Capture mode returns exactly the trees that were enqueued, in arrival
\* order, once each; the trees of the scope are all there, in production order.
CaptureComplete ==
    (mode = "capture" /\ fg_pc = "returned") =>
        /\ logs = enqueued
        /\ SelectSeq(logs, FromScope)
             = [k \in 1..count[ScopeProducer] |-> <<ScopeProducer, k>>]

\* C3 witness: the scope produced two trees and the returned Vec has length 2,
\* in that order.
CaptureCompleteWitness ==
    /\ mode = "capture"
    /\ fg_pc = "returned"
    /\ count[ScopeProducer] = 2
    /\ logs = << <<ScopeProducer, 1>>, <<ScopeProducer, 2>> >>

\* the process call of SpecChain has been made
Processed == mode = "chain" /\ pres.calls # <<>>

\* what a leaf returning oc on tree hands back in its report
Carried(oc, tree) == IF oc = "fail_tree" THEN tree ELSE NoTree

\* stages 1..k called once each, in order, on the input tree
CallsUpTo(k) == [j \in 1..k |-> <<j, ptree>>]

\* C4: two-stage with_fallback(primary, fallback): a primary failure that
\* carries the tree has the fallback called exactly once, with that tree, and
\* the composite returns the fallback's outcome; a primary success leaves the
\* fallback uncalled and the composite returns success.
FallbackCorrect ==
    (Processed /\ Len(pchain) = 2) =>
        /\ poracle[1] = "fail_tree" =>
              /\ pres.calls = << <<1, ptree>>, <<2, ptree>> >>
              /\ pres.ok = (poracle[2] = "ok")
              /\ pres.tree = Carried(poracle[2], ptree)
        /\ poracle[1] = "ok" =>
              /\ pres.calls = << <<1, ptree>> >>
              /\ pres.ok

\* C4 witness: the primary failed with the tree, the fallback took it and
\* succeeded.
FallbackCorrectWitness ==
    /\ Processed
    /\ Len(pchain) = 2
    /\ poracle[1] = "fail_tree"
    /\ pres.calls = << <<1, ptree>>, <<2, ptree>> >>
    /\ pres.ok

\* C5: when a stage that was reached fails with a report without the tree,
\* the chain returns that report (failure, no tree) and no later stage is
\* called, however many fallbacks are stacked on top.
LossPropagates ==
    Processed =>
        \A f \in 1..Len(pchain) :
            (/\ poracle[f] = "fail_notree"
             /\ \A j \in 1..(f - 1) : poracle[j] = "fail_tree")
            => /\ ~pres.ok
               /\ pres.tree = NoTree
               /\ pres.calls = CallsUpTo(f)

\* C5 witness: the first of three stages lost the tree; both fallbacks on top
\* of it were skipped.
LossPropagatesWitness ==
    /\ Processed
    /\ Len(pchain) = 3
    /\ poracle[1] = "fail_notree"
    /\ pres = Result(FALSE, NoTree, << <<1, ptree>> >>)

\* the first stage that does not fail with the tree, or the last stage
FirstStop ==
    IF \E i \in 1..Len(pchain) : poracle[i] # "fail_tree"
    THEN CHOOSE i \in 1..Len(pchain) :
            /\ poracle[i] # "fail_tree"
            /\ \A j \in 1..(i - 1) : poracle[j] = "fail_tree"
    ELSE Len(pchain)

\* C6: a chain is evaluated left to right: exactly the stages up to the first
\* one that does not fail with the tree are called, once each and in order,
\* and the chain returns what the last stage called returned.
LeftToRight ==
    Processed =>
        /\ pres.calls = CallsUpTo(FirstStop)
        /\ pres.ok = (poracle[FirstStop] = "ok")
        /\ pres.tree = Carried(poracle[FirstStop], ptree)

\* C6 witness: of three stages the first failed with the tree, the second
\* succeeded and the third was never called.
LeftToRightWitness ==
    /\ Processed
    /\ Len(pchain) = 3
    /\ poracle[1] = "fail_tree"
    /\ poracle[2] = "ok"
    /\ pres = Result(TRUE, NoTree, << <<1, ptree>>, <<2, ptree>> >>)

\* is `short` what is left of `long` after some trees were taken from its head
IsSuffix(short, long) ==
    /\ Len(short) <= Len(long)
    /\ short = SubSeq(long, Len(long) - Len(short) + 1, Len(long))

\* every submission so far: the send succeeded exactly when the channel was
\* open, a failed send reports the submitted tree back, and a producer that
\* may submit is never disabled by the buffer or by the consumer
EnqueueState ==
    /\ \A i \in DOMAIN sends :
         LET e == sends[i]
         IN  /\ e.sent = ~e.closed
             /\ e.calls[1] = <<1, e.tree>>
             /\ (~e.sent /\ Len(sender_chain) = 1)
                    => (~e.ok /\ e.carried = e.tree)
    /\ enqueued = [i \in 1..Len(enqueued) |->
                     SelectSeq(sends, LAMBDA e : e.sent)[i].tree]
    /\ \A p \in Producers :
         (Active(p) /\ count[p] < Limit(p)) => ENABLED Produce(p)

\* a step on a closed channel adds nothing to the buffer, and a failed
\* submission leaves it as it was
EnqueueStep ==
    rx_closed => /\ IsSuffix(buffer', buffer)
                 /\ sends' # sends => buffer' = buffer

\* C7: enqueue never blocks and fails only on a closed receiving half; the
\* failure report carries the same tree back, the buffer is unchanged, and
\* once the channel is closed no tree is added to the buffer.
EnqueueContract == []EnqueueState /\ [][EnqueueStep]_vars

\* C7 witness: with trees still buffered, a bare TreeSender was given a tree
\* after close and returned it in its report.
EnqueueContractWitness ==
    /\ mode = "process"
    /\ Len(sender_chain) = 1
    /\ rx_closed
    /\ buffer # <<>>
    /\ \E i \in DOMAIN sends :
         /\ sends[i].closed
         /\ ~sends[i].ok
         /\ sends[i].carried = sends[i].tree

\* C8: with the sender wrapped by a fallback, a tree submitted after close is
\* handed to the fallback exactly once, and no tree is both enqueued and handed
\* to the fallback.
ClosedIsRecoverable ==
    Len(sender_chain) = 2 =>
        \A i \in DOMAIN sends :
            LET e == sends[i]
            IN  /\ e.closed => e.calls = << <<1, e.tree>>, <<2, e.tree>> >>
                /\ e.tree \in TreesOf(enqueued) => e.calls = << <<1, e.tree>> >>

\* C8 witness: one tree went through the channel, and a later one, submitted
\* after close, was taken by the fallback.
ClosedIsRecoverableWitness ==
    /\ mode = "process"
    /\ Len(sender_chain) = 2
    /\ \E i, j \in DOMAIN sends :
         /\ sends[i].sent
         /\ sends[j].closed
         /\ sends[j].ok
         /\ sends[j].calls = << <<1, sends[j].tree>>, <<2, sends[j].tree>> >>

Failed(e) == ~e.ok
ObservedSeq == [i \in DOMAIN observed |-> observed[i].tree]

\* C9: each failure of the consumer-side Processor is given to the failure
\* hook exactly once, in either loop; the task does not stop for it, and when
\* the task is done every enqueued tree has been processed.
FailureIsolated ==
    mode = "process" =>
        /\ hook = [k \in 1..Len(SelectSeq(observed, Failed)) |->
                     [tree |-> SelectSeq(observed, Failed)[k].tree,
                      carried |-> SelectSeq(observed, Failed)[k].carried]]
        /\ bg_pc = "Panicked" => fg_pc = "panicked"
        /\ bg_pc = "Done" => ObservedSeq = enqueued

\* C9 witness: a tree failed in the select loop, the next failed in the drain
\* loop, the one after it was still processed, and the task finished.
FailureIsolatedWitness ==
    /\ mode = "process"
    /\ bg_pc = "Done"
    /\ Len(observed) >= 3
    /\ ~observed[1].ok /\ observed[1].phase = "Running"
    /\ ~observed[2].ok /\ observed[2].phase = "Draining"
    /\ observed[3].ok
    /\ Len(hook) = 2

\* the scenario: a primary that always fails under with_ignore_fallback, three
\* trees from the scope and none from elsewhere, and `on` has returned
ScenarioRan ==
    /\ mode = "process"
    /\ fg_pc = "returned"
    /\ receiver_chain \in {<<"FailTree", "Sink">>, <<"FailNoTree", "Sink">>}
    /\ count[OtherProducer] = 0
    /\ enqueued = [k \in 1..3 |-> <<ScopeProducer, k>>]

\* C10 as stated: after the scenario the failure hook was invoked 3 times.
ScenarioHookThrice == ScenarioRan => Len(hook) = 3

\* C10 amended: after the scenario all 3 trees were processed and the task
\* ended normally; the hook was invoked 0 times when the primary's reports
\* carry the tree, and 3 times only when they carry none.
ScenarioHookCount ==
    ScenarioRan =>
        /\ bg_pc = "Done"
        /\ ObservedSeq = enqueued
        /\ receiver_chain[1] = "FailTree" =>
              /\ hook = <<>>
              /\ \A i \in DOMAIN observed : observed[i].ok
        /\ receiver_chain[1] = "FailNoTree" => Len(hook) = 3

\* C10 witness: the scenario ran with a primary whose reports carry the tree;
\* three trees were processed and the hook was never invoked.
ScenarioHookCountWitness ==
    /\ ScenarioRan
    /\ receiver_chain = <<"FailTree", "Sink">>
    /\ Len(observed) = 3
    /\ hook = <<>>

\* the consumer-side Processor was built with with_ignore_fallback
IgnoreFallback == Len(receiver_chain) = 2 /\ receiver_chain[2] = "Sink"

HookTrees == {hook[k].tree : k \in DOMAIN hook}

\* C11: the failure hook is invoked for a tree only when the consumer-side
\* chain returned a failure for it; under with_ignore_fallback every tree whose
\* primary succeeded or failed with a tree-bearing report gets success and no
\* hook call, so with a primary whose reports carry the tree the hook is never
\* invoked.
HookOnlyOnFinalFailure ==
    mode = "process" =>
        /\ \A t \in HookTrees :
              \E i \in DOMAIN observed : observed[i].tree = t /\ ~observed[i].ok
        /\ IgnoreFallback =>
              /\ \A i \in DOMAIN observed :
                    (observed[i].ok \/ Len(observed[i].calls) = 2)
                        => (observed[i].ok /\ observed[i].tree \notin HookTrees)
              /\ \A k \in DOMAIN hook : hook[k].carried = NoTree
              /\ receiver_chain[1] = "FailTree" => hook = <<>>

\* C11 witness: under with_ignore_fallback the primary failed with the tree in
\* both loops, Sink took the tree each time, and the hook stayed silent.
HookOnlyOnFinalFailureWitness ==
    /\ mode = "process"
    /\ receiver_chain = <<"FailTree", "Sink">>
    /\ bg_pc = "Done"
    /\ \E i, j \in DOMAIN observed :
         /\ observed[i].phase = "Running" /\ Len(observed[i].calls) = 2
         /\ observed[j].phase = "Draining" /\ Len(observed[j].calls) = 2
    /\ hook = <<>>

\* C12: Sink::process returns Ok(()) for every tree, the degenerate one
\* included: whenever a Sink stage is called it is the last call of the chain
\* and the chain returns success, with no report.
SinkTotal ==
    Processed =>
        \A i \in DOMAIN pres.calls :
            pchain[pres.calls[i][1]] = "Sink"
                => /\ i = Len(pres.calls)
                   /\ pres.ok
                   /\ pres.tree = NoTree

\* C12 witness: Sink on its own was given the degenerate tree and returned
\* success.
SinkTotalWitness ==
    /\ Processed
    /\ pchain = <<"Sink">>
    /\ ptree = EmptyTree
    /\ pres = Result(TRUE, NoTree, << <<1, EmptyTree>> >>)

\* trees taken from the channel and not yet through the consumer-side Processor
InFlight == Len(enqueued) - Len(buffer) - Len(observed)

\* C13: the one spawned task is the only caller of the consumer-side
\* Processor: at most one tree is in processing at any time, it is the tree the
\* task holds, and none is once the task has left its loops.
ConsumerExclusive ==
    mode = "process" =>
        /\ InFlight \in {0, 1}
        /\ InFlight = 1 <=> bg_cur # NoTree
        /\ bg_pc \notin {"Running", "Draining"} => InFlight = 0

\* C13 witness: both producers have enqueued, the task is processing one tree
\* and two more wait in the buffer.
ConsumerExclusiveWitness ==
    /\ mode = "process"
    /\ bg_cur # NoTree
    /\ InFlight = 1
    /\ Len(buffer) >= 2
    /\ \A p \in Producers : count[p] > 0

\* ---- both modes of `on` side by side ------------------------------------
InitModes == Init \/ InitCapture

NextModes == Next \/ NextCapture

SpecModes == InitModes /\ [][NextModes]_vars

\* C14: a run with global activation started while a global subscriber is
\* already set fails at setup, in Process mode and in Capture mode: `on` is at
\* setup or has panicked there, the scope made no step, no tree was submitted,
\* processed or captured.
SetupErrorImmediate ==
    (is_global /\ global_set) =>
        /\ fg_pc \in {"setup", "panicked"}
        /\ count = [p \in Producers |-> 0]
        /\ sends = <<>>
        /\ enqueued = <<>>
        /\ observed = <<>>
        /\ hook = <<>>
        /\ logs = <<>>
        /\ signals = 0

\* C14 witness: Capture mode with global activation panicked at setup.
SetupErrorImmediateWitness ==
    /\ mode = "capture"
    /\ is_global
    /\ global_set
    /\ fg_pc = "panicked"

\* ---- Process mode under fair scheduling ---------------------------------
\* the runtime keeps polling `on` and the spawned task while they can move;
\* producers and the scope's future are free to stop
FgRun == FgSetup \/ FgSendShutdown \/ FgJoin

BgRun == BgRecv \/ BgProcess \/ BgShutdown \/ BgClose \/ BgDrainRecv \/ BgDone
            \/ BgPanic

\* termination does not depend on what the consumer-side Processor is made
\* of, only on its calls returning: one leaf that may return anything
InitFair == Init /\ receiver_chain = <<"Any">>

SpecFair == InitFair /\ [][Next]_vars /\ WF_vars(FgRun) /\ WF_vars(BgRun)

\* C15: once the scope's future has completed, the task reaches Done and `on`
\* returns, also when senders still exist.
Terminates ==
    (mode = "process" /\ fg_pc = "scope_done")
        ~> (fg_pc = "returned" /\ bg_pc = "Done")

\* C15 witness: under global activation `on` has returned and the task is Done
\* while a sender still exists and a producer was turned away after close.
TerminatesWitness ==
    /\ mode = "process"
    /\ is_global
    /\ fg_pc = "returned"
    /\ bg_pc = "Done"
    /\ tx_alive
    /\ \E i \in DOMAIN sends : sends[i].closed

\* the order of the foreground's positions
FgOrder ==
    {<<"setup", "scope">>, <<"setup", "panicked">>, <<"scope", "scope_done">>,
     <<"scope_done", "joining">>, <<"scope_done", "panicked">>,
     <<"joining", "returned">>, <<"joining", "panicked">>}

FgOrderState ==
    mode = "process" =>
        /\ shutdown \in {"sent", "received"}
              => fg_pc \in {"joining", "returned", "panicked"}
        /\ fg_pc \in {"setup", "scope", "scope_done"} => signals = 0
        /\ fg_pc = "joining" => signals = 1
        /\ fg_pc = "returned" => (signals = 1 /\ bg_pc = "Done")

FgOrderStep ==
    /\ fg_pc' # fg_pc => <<fg_pc, fg_pc'>> \in FgOrder
    /\ signals' # signals => (fg_pc = "scope_done" /\ fg_pc' = "joining")

\* C16: in Process mode the signal is sent only after the scope's future has
\* completed, the join starts only after the signal was sent, and `on` returns
\* only after the task is Done; the foreground never skips or repeats a step.
ForegroundOrder == []FgOrderState /\ [][FgOrderStep]_vars

\* C16 witness: `on` has returned after one signal, the task is Done and had
\* still a tree to drain after the signal.
ForegroundOrderWitness ==
    /\ mode = "process"
    /\ fg_pc = "returned"
    /\ signals = 1
    /\ bg_pc = "Done"
    /\ \E i \in DOMAIN observed : observed[i].phase = "Draining"

\* a move of the task along Running -> ShuttingDown -> Draining -> Done
BgMoveOnPath ==
    \/ /\ bg_pc = "Running" /\ bg_pc' = "ShuttingDown"
       /\ shutdown = "sent" /\ shutdown' = "received"
    \/ /\ bg_pc = "ShuttingDown" /\ bg_pc' = "Draining"
       /\ rx_closed'
    \/ /\ bg_pc = "Draining" /\ bg_pc' = "Done"
       /\ rx_closed /\ buffer = <<>> /\ bg_cur = NoTree

\* the task panics in select! with no branch left, after `on` panicked at setup
BgMoveSetupFailed ==
    /\ bg_pc = "Running" /\ bg_pc' = "Panicked"
    /\ fg_pc = "panicked"
    /\ shutdown = "dropped"
    /\ sends = <<>>

ShutdownOnce ==
    /\ signals \in {0, 1}
    /\ signals = 1 <=> shutdown \in {"sent", "received"}
    /\ shutdown = "received" => bg_pc \in {"ShuttingDown", "Draining", "Done"}

\* C18 witness: the one signal was sent and received, `on` has returned, and
\* under global activation a producer is still submitting afterwards.
ShutdownOnceWitness ==
    /\ mode = "process"
    /\ signals = 1
    /\ shutdown = "received"
    /\ fg_pc = "returned"
    /\ is_global
    /\ \E i \in DOMAIN sends : sends[i].closed

\* C19: Capture mode has no concurrent consumer: no Processor is ever called
\* on the consumer side, every enqueued tree stays in the channel until the
\* scope's future has completed, and the receiving half is closed before the
\* first tree is moved into the result.
CaptureNoConsumer ==
    mode = "capture" =>
        /\ observed = <<>>
        /\ hook = <<>>
        /\ bg_cur = NoTree
        /\ fg_pc \in {"setup", "scope", "scope_done"}
              => (buffer = enqueued /\ logs = <<>>)
        /\ (logs # <<>> \/ Len(buffer) < Len(enqueued))
              => (rx_closed /\ fg_pc \in {"draining", "returned"})
        /\ logs \o buffer = enqueued

\* C19 witness: after the scope and the close, one tree has been moved into
\* the result and another still waits in the channel.
CaptureNoConsumerWitness ==
    /\ mode = "capture"
    /\ fg_pc = "draining"
    /\ rx_closed
    /\ logs # <<>>
    /\ buffer # <<>>

\* C20: in Process mode a tree is handed to the consumer-side Processor at most
\* once, whichever loop takes it, only if it was enqueued, and then it is no
\* longer in the channel; a tree that a failed send gave back to its producer
\* never reaches the consumer-side Processor.
ConsumedOnce ==
    mode = "process" =>
        /\ \A i, j \in DOMAIN observed :
              i # j => observed[i].tree # observed[j].tree
        /\ \A i \in DOMAIN observed :
              /\ observed[i].tree \in TreesOf(enqueued)
              /\ observed[i].tree \notin TreesOf(buffer)
              /\ observed[i].tree # bg_cur
        /\ \A i \in DOMAIN sends :
              ~sends[i].sent =>
                  /\ sends[i].tree \notin ObservedTrees
                  /\ sends[i].tree \notin TreesOf(buffer)
                  /\ sends[i].tree # bg_cur

\* C20 witness: the task is Done having processed one tree in each loop, and a
\* bare TreeSender gave a late tree back to its producer.
ConsumedOnceWitness ==
    /\ mode = "process"
    /\ bg_pc = "Done"
    /\ Len(sender_chain) = 1
    /\ \E i, j \in DOMAIN observed :
         observed[i].phase = "Running" /\ observed[j].phase = "Draining"
    /\ \E i \in DOMAIN sends : ~sends[i].sent /\ sends[i].carried = sends[i].tree
\* C21: on the graceful path (setup succeeded, the scope's future completes,
\* the hook returns) the task is in its select loop when the foreground sends
\* the shutdown signal, so the send succeeds and the foreground goes on to the
\* join. Before the signal the task is in Running and has not panicked, also
\* when every sending half is dropped and the buffer is empty; the select! never
\* has its two branches disabled together; and once the one-shot has delivered
\* the signal the task is past the select loop, the only place that polls it.
GracefulPath ==
    /\ mode = "process"
    /\ fg_pc \in {"scope", "scope_done", "joining", "returned"}

BothBranchesDisabled ==
    /\ bg_pc = "Running"
    /\ Idle(bg_cur)
    /\ RecvIsNone(buffer, rx_closed, tx_alive)
    /\ shutdown = "dropped"

GracefulState ==
    GracefulPath =>
        /\ bg_pc # "Panicked"
        /\ ~BothBranchesDisabled
        /\ signals = 0 => bg_pc = "Running" /\ shutdown = "empty"
        /\ shutdown = "received" => bg_pc \in {"ShuttingDown", "Draining", "Done"}
        /\ shutdown # "dropped"

GracefulStep ==
    (mode = "process" /\ fg_pc = "scope_done" /\ fg_pc' # fg_pc) =>
        /\ bg_pc = "Running"
        /\ fg_pc' = "joining"
        /\ shutdown = "empty"
        /\ shutdown' = "sent"
        /\ signals' = 1

SignalAlwaysSent == []GracefulState /\ [][GracefulStep]_vars

\* C21 witness: scoped activation, the guard is released and the buffer is
\* empty, so recv() gives None, and the signal has just been sent to a task that
\* stayed in its select loop.
SignalAlwaysSentWitness ==
    /\ mode = "process"
    /\ ~is_global
    /\ fg_pc = "joining"
    /\ shutdown = "sent"
    /\ signals = 1
    /\ bg_pc = "Running"
    /\ Idle(bg_cur)
    /\ RecvIsNone(buffer, rx_closed, tx_alive)
    /\ enqueued # <<>>

====
